---- MODULE Spec2Model ----
(***************************************************************************)
(* NL2SQL backend (src/backend/main.py): the upload-to-query pipeline.     *)
(*                                                                         *)
(* Text is modelled as sequences of one-character strings, so that the     *)
(* string operations of the code (strip, lower, replace, splitext, the     *)
(* regular expressions and json.loads) are computed, not assumed.          *)
(***************************************************************************)
EXTENDS Integers, Sequences, FiniteSets, TLC

(***************************************************************************)
(* Character classes                                                       *)
(***************************************************************************)
UpperCase == <<"A","B","C","D","E","F","G","H","I","J","K","L","M",
               "N","O","P","Q","R","S","T","U","V","W","X","Y","Z">>
LowerCase == <<"a","b","c","d","e","f","g","h","i","j","k","l","m",
               "n","o","p","q","r","s","t","u","v","w","x","y","z">>
Digits == {"0","1","2","3","4","5","6","7","8","9"}
Whitespace == {" ", "\t", "\n", "\r"}

Range(s) == {s[i] : i \in 1..Len(s)}

\* str.lower() on one character
LowerChar(c) ==
  IF \E i \in 1..26 : UpperCase[i] = c
  THEN LowerCase[CHOOSE i \in 1..26 : UpperCase[i] = c]
  ELSE c

\* str.lower()
Lower(s) == [i \in 1..Len(s) |-> LowerChar(s[i])]

\* str.strip(chars): drop the leading and trailing characters that are in cs
StripChars(s, cs) ==
  LET keep == {i \in 1..Len(s) : s[i] \notin cs}
  IN IF keep = {} THEN <<>>
     ELSE SubSeq(s, CHOOSE i \in keep : \A j \in keep : i <= j,
                    CHOOSE i \in keep : \A j \in keep : i >= j)

\* str.strip()
Strip(s) == StripChars(s, Whitespace)

\* s[i:].startswith(pat), positions counted from 1
MatchAt(s, i, pat) ==
  /\ i >= 1
  /\ i + Len(pat) - 1 <= Len(s)
  /\ \A k \in 1..Len(pat) : s[i + k - 1] = pat[k]

\* str.startswith(pat)
StartsWith(s, pat) == MatchAt(s, 1, pat)

\* str.rfind(c) for one character; 0 stands for Python's -1
RFind(s, c) ==
  LET hits == {i \in 1..Len(s) : s[i] = c}
  IN IF hits = {} THEN 0 ELSE CHOOSE i \in hits : \A j \in hits : i >= j

\* str.find(c) for one character; 0 stands for Python's -1
Find(s, c) ==
  LET hits == {i \in 1..Len(s) : s[i] = c}
  IN IF hits = {} THEN 0 ELSE CHOOSE i \in hits : \A j \in hits : i <= j

\* str.replace(pat, ""): every non-overlapping occurrence, left to right
RECURSIVE RemoveAllFrom(_, _, _)
RemoveAllFrom(s, pat, i) ==
  IF i > Len(s) THEN <<>>
  ELSE IF MatchAt(s, i, pat) THEN RemoveAllFrom(s, pat, i + Len(pat))
  ELSE <<s[i]>> \o RemoveAllFrom(s, pat, i + 1)

RemoveAll(s, pat) == RemoveAllFrom(s, pat, 1)

\* sep.join(parts)
RECURSIVE Join(_, _)
Join(parts, sep) ==
  IF parts = <<>> THEN <<>>
  ELSE IF Len(parts) = 1 THEN parts[1]
  ELSE parts[1] \o sep \o Join(Tail(parts), sep)

(***************************************************************************)
(* Table naming (main.py 47-51) and the extension test (main.py 19, 74-75) *)
(***************************************************************************)
\* os.path.splitext: <<root, ext>>; a leading run of dots is not an extension
SplitExt(p) ==
  LET sepIndex == RFind(p, "/")
      dotIndex == RFind(p, ".")
  IN IF /\ dotIndex > sepIndex
        /\ \E k \in (sepIndex + 1)..(dotIndex - 1) : p[k] # "."
     THEN <<SubSeq(p, 1, dotIndex - 1), SubSeq(p, dotIndex, Len(p))>>
     ELSE <<p, <<>>>>

IsWordChar(c) ==
  \/ c \in Digits
  \/ c = "_"
  \/ \E i \in 1..26 : c = UpperCase[i] \/ c = LowerCase[i]

\* a substitution that is forgotten (mutation of SubNonWord)
SubNothing(s) == s

\* re.sub(r"[^a-zA-Z0-9_]", "_", s)
SubNonWord(s) == [i \in 1..Len(s) |-> IF IsWordChar(s[i]) THEN s[i] ELSE "_"]

\* re.sub(r"_+", "_", s)
RECURSIVE CollapseUnderscores(_)
CollapseUnderscores(s) ==
  IF Len(s) <= 1 THEN s
  ELSE IF s[1] = "_" /\ s[2] = "_" THEN CollapseUnderscores(Tail(s))
  ELSE <<s[1]>> \o CollapseUnderscores(Tail(s))

FallbackName == <<"u","p","l","o","a","d","e","d","_","t","a","b","l","e">>

sanitize_table_name(filename) ==
  LET base    == Lower(Strip(SplitExt(filename)[1]))
      cleaned == StripChars(CollapseUnderscores(SubNonWord(base)), {"_"})
  IN IF cleaned = <<>> THEN FallbackName ELSE cleaned

\* a list of extensions that lets text files in (mutation of ALLOWED_EXTENSIONS)
AllowedWithTxt ==
  { <<".","c","s","v">>, <<".","x","l","s","x">>, <<".","t","s","v">>, <<".","t","x","t">> }

ALLOWED_EXTENSIONS == { <<".","c","s","v">>, <<".","x","l","s","x">>, <<".","t","s","v">> }

\* os.path.splitext(file.filename)[1].lower()
FileExt(filename) == Lower(SplitExt(filename)[2])

(***************************************************************************)
(* json.loads (called at main.py 120 and 127).  A decoded value is a       *)
(* record [t, s, m, a]: t is the Python type ("dict", "list", "str",       *)
(* "num", "bool", "none"), s the characters of a str, the lexeme of a num  *)
(* or of a bool, m the mapping of a dict (keys are strings) and a the      *)
(* items of a list.  The backquote cannot be written in a string literal   *)
(* of this language; the character "~" stands for it throughout.           *)
(***************************************************************************)
EmptyMap == [k \in {} |-> 0]

JStr(s)  == [t |-> "str",  s |-> s,    m |-> EmptyMap, a |-> <<>>]
JNum(s)  == [t |-> "num",  s |-> s,    m |-> EmptyMap, a |-> <<>>]
JBool(s) == [t |-> "bool", s |-> s,    m |-> EmptyMap, a |-> <<>>]
JNone    == [t |-> "none", s |-> <<>>, m |-> EmptyMap, a |-> <<>>]
JDict(m) == [t |-> "dict", s |-> <<>>, m |-> m,        a |-> <<>>]
JList(a) == [t |-> "list", s |-> <<>>, m |-> EmptyMap, a |-> a]

LitTrue  == <<"t","r","u","e">>
LitFalse == <<"f","a","l","s","e">>
LitNull  == <<"n","u","l","l">>
LitNaN   == <<"N","a","N">>
LitInf   == <<"I","n","f","i","n","i","t","y">>
LitNegInf == <<"-">> \o LitInf

\* a failed scan (json.JSONDecodeError)
NoParse == [ok |-> FALSE, v |-> JNone, p |-> 0]
Parsed(v, p) == [ok |-> TRUE, v |-> v, p |-> p]

\* WHITESPACE.match(s, i).end()
RECURSIVE SkipWs(_, _)
SkipWs(s, i) == IF i <= Len(s) /\ s[i] \in Whitespace THEN SkipWs(s, i + 1) ELSE i

\* the position after the run of digits that starts at i
RECURSIVE SkipDigits(_, _)
SkipDigits(s, i) == IF i <= Len(s) /\ s[i] \in Digits THEN SkipDigits(s, i + 1) ELSE i

\* NUMBER_RE = (-?(?:0|[1-9]\d*))(\.\d+)?([eE][-+]?\d+)? matched at i: each
\* operator gives the position after its group, 0 when the integer part
\* does not match
\* (-?(?:0|[1-9]\d*)) with its digits at d
IntEnd(s, d) ==
  IF d > Len(s) \/ s[d] \notin Digits THEN 0
  ELSE IF s[d] = "0" THEN d + 1 ELSE SkipDigits(s, d)

\* (\.\d+)? after an integer part that ends before int
FracEnd(s, int) ==
  IF int # 0 /\ int <= Len(s) /\ s[int] = "." /\ SkipDigits(s, int + 1) > int + 1
  THEN SkipDigits(s, int + 1) ELSE int

\* the first digit of an exponent whose letter is at frac
ExpDigits(s, frac) ==
  IF frac + 1 <= Len(s) /\ s[frac + 1] \in {"-", "+"} THEN frac + 2 ELSE frac + 1

\* ([eE][-+]?\d+)? after a fraction that ends before frac
ExpEnd(s, frac) ==
  IF /\ frac # 0 /\ frac <= Len(s) /\ s[frac] \in {"e", "E"}
     /\ SkipDigits(s, ExpDigits(s, frac)) > ExpDigits(s, frac)
  THEN SkipDigits(s, ExpDigits(s, frac)) ELSE frac

\* the position after the match of NUMBER_RE at i, or 0 when there is none
NumberEnd(s, i) ==
  ExpEnd(s, FracEnd(s, IntEnd(s, IF i <= Len(s) /\ s[i] = "-" THEN i + 1 ELSE i)))

\* the character an escape sequence \c denotes (\u is outside the alphabet)
Unescape(c) ==
  CASE c = "n" -> "\n"
    [] c = "t" -> "\t"
    [] c = "r" -> "\r"
    [] OTHER   -> c

\* py_scanstring from the position after the opening quote (strict mode)
RECURSIVE ScanString(_, _, _)
ScanString(s, i, acc) ==
  IF i > Len(s) THEN NoParse
  ELSE IF s[i] = "\"" THEN [ok |-> TRUE, v |-> JStr(acc), p |-> i + 1]
  ELSE IF s[i] \in {"\n", "\t", "\r"} THEN NoParse
  ELSE IF s[i] = "\\"
       THEN IF i + 1 <= Len(s) /\ s[i + 1] \in {"\"", "\\", "/", "n", "t", "r"}
            THEN ScanString(s, i + 2, Append(acc, Unescape(s[i + 1])))
            ELSE NoParse
  ELSE ScanString(s, i + 1, Append(acc, s[i]))

RECURSIVE ScanOnce(_, _)
RECURSIVE ObjectMembers(_, _, _)
RECURSIVE ArrayItems(_, _, _)

\* pairs[key] = value in a dict (a repeated key keeps its last value)
DictPut(m, k, v) == [x \in DOMAIN m \cup {k} |-> IF x = k THEN v ELSE m[x]]

\* JSONObject after a pair: e is the first position after the value and the
\* whitespace behind it, m the pairs read so far
ObjectAfterPair(s, e, m) ==
  IF e > Len(s) THEN NoParse
  ELSE IF s[e] = "}" THEN Parsed(JDict(m), e + 1)
  ELSE IF s[e] = "," /\ SkipWs(s, e + 1) <= Len(s) /\ s[SkipWs(s, e + 1)] = "\""
       THEN ObjectMembers(s, SkipWs(s, e + 1) + 1, m)
  ELSE NoParse

\* JSONObject after the value val of the key k has been scanned
ObjectAfterValue(s, k, val, m) ==
  IF val.ok THEN ObjectAfterPair(s, SkipWs(s, val.p), DictPut(m, k, val.v)) ELSE NoParse

\* JSONObject after a key: c is the first position after the key and the
\* whitespace behind it
ObjectAfterKey(s, k, c, m) ==
  IF c <= Len(s) /\ s[c] = ":"
  THEN ObjectAfterValue(s, k, ScanOnce(s, SkipWs(s, c + 1)), m)
  ELSE NoParse

\* JSONObject once the key key has been scanned
ObjectKeyScanned(s, key, m) ==
  IF key.ok THEN ObjectAfterKey(s, key.v.s, SkipWs(s, key.p), m) ELSE NoParse

\* JSONObject after the key's opening quote at position i - 1; m holds the
\* pairs read so far
ObjectMembers(s, i, m) == ObjectKeyScanned(s, ScanString(s, i, <<>>), m)

\* JSONArray after an item: e is the first position after the item and the
\* whitespace behind it, acc the items read so far
ArrayAfterItem(s, e, acc) ==
  IF e > Len(s) THEN NoParse
  ELSE IF s[e] = "]" THEN Parsed(JList(acc), e + 1)
  ELSE IF s[e] = "," THEN ArrayItems(s, SkipWs(s, e + 1), acc)
  ELSE NoParse

\* JSONArray once the item val has been scanned
ArrayItemScanned(s, val, acc) ==
  IF val.ok THEN ArrayAfterItem(s, SkipWs(s, val.p), Append(acc, val.v)) ELSE NoParse

\* JSONArray at the first character of an item
ArrayItems(s, i, acc) == ArrayItemScanned(s, ScanOnce(s, i), acc)

\* JSONObject at the first position j after "{" and whitespace
ObjectBody(s, j) ==
  IF j > Len(s) THEN NoParse
  ELSE IF s[j] = "}" THEN Parsed(JDict(EmptyMap), j + 1)
  ELSE IF s[j] = "\"" THEN ObjectMembers(s, j + 1, EmptyMap)
  ELSE NoParse

\* JSONArray at the first position j after "[" and whitespace
ArrayBody(s, j) ==
  IF j > Len(s) THEN NoParse
  ELSE IF s[j] = "]" THEN Parsed(JList(<<>>), j + 1)
  ELSE ArrayItems(s, j, <<>>)

\* a number that ends before position e (0: no number at i)
NumberScanned(s, i, e) == IF e # 0 THEN Parsed(JNum(SubSeq(s, i, e - 1)), e) ELSE NoParse

\* scanner.py_make_scanner's _scan_once at position i
ScanOnce(s, i) ==
  IF i > Len(s) THEN NoParse
  ELSE IF s[i] = "\"" THEN ScanString(s, i + 1, <<>>)
  ELSE IF s[i] = "{" THEN ObjectBody(s, SkipWs(s, i + 1))
  ELSE IF s[i] = "[" THEN ArrayBody(s, SkipWs(s, i + 1))
  ELSE IF MatchAt(s, i, LitNull)  THEN Parsed(JNone, i + 4)
  ELSE IF MatchAt(s, i, LitTrue)  THEN Parsed(JBool(LitTrue), i + 4)
  ELSE IF MatchAt(s, i, LitFalse) THEN Parsed(JBool(LitFalse), i + 5)
  ELSE IF NumberEnd(s, i) # 0 THEN NumberScanned(s, i, NumberEnd(s, i))
  ELSE IF MatchAt(s, i, LitNaN)    THEN Parsed(JNum(LitNaN), i + 3)
  ELSE IF MatchAt(s, i, LitInf)    THEN Parsed(JNum(LitInf), i + 8)
  ELSE IF MatchAt(s, i, LitNegInf) THEN Parsed(JNum(LitNegInf), i + 9)
  ELSE NoParse

\* the end of json.loads: nothing but whitespace may follow the value r
WholeText(text, r) == IF r.ok /\ SkipWs(text, r.p) = Len(text) + 1 THEN r ELSE NoParse

\* json.loads(text): one value, surrounded by whitespace only
json_loads(text) == WholeText(text, ScanOnce(text, SkipWs(text, 1)))

(***************************************************************************)
(* extract_json (main.py 116-131)                                          *)
(***************************************************************************)
FenceJson == <<"~","~","~","j","s","o","n">>
Fence     == <<"~","~","~">>

\* line 117: text.strip().replace("```json", "").replace("```", "").strip()
CleanText(text) == Strip(RemoveAll(RemoveAll(Strip(text), FenceJson), Fence))

\* line 124: re.search(r"\{.*\}", text, re.DOTALL): from the first "{" to
\* the last "}" after it; <<>> when there is no match
BraceBlock(text) ==
  LET first == Find(text, "{")
      last  == RFind(text, "}")
  IN IF first # 0 /\ last > first THEN SubSeq(text, first, last) ELSE <<>>

\* lines 123-127: the fallback on the first "{" ... last "}" of cleaned;
\* json.loads of the match may raise, which line 130 turns into ValueError
ExtractBlock(block) ==
  IF block # <<>> /\ json_loads(block).ok
  THEN [ok |-> TRUE, v |-> json_loads(block).v]
  ELSE [ok |-> FALSE, v |-> JNone]

\* lines 119-127 on the cleaned text; direct is the outcome of line 120
ExtractCleaned(cleaned, direct) ==
  IF direct.ok THEN [ok |-> TRUE, v |-> direct.v] ELSE ExtractBlock(BraceBlock(cleaned))

\* the outcome of extract_json: [ok |-> TRUE, v |-> the value returned] or
\* [ok |-> FALSE] for ValueError
ExtractFrom(cleaned) == ExtractCleaned(cleaned, json_loads(cleaned))

extract_json(text) == ExtractFrom(CleanText(text))

(***************************************************************************)
(* Python values as generate_sql uses them (main.py 187-202)               *)
(***************************************************************************)
\* bool(v)
Truthy(v) ==
  CASE v.t = "str"  -> v.s # <<>>
    [] v.t = "num"  -> \E i \in 1..Len(v.s) :
                          /\ v.s[i] \notin {"0", "-", ".", "e", "E"}
                          /\ \A j \in 1..i : v.s[j] \notin {"e", "E"}
    [] v.t = "bool" -> v.s = LitTrue
    [] v.t = "none" -> FALSE
    [] v.t = "dict" -> DOMAIN v.m # {}
    [] v.t = "list" -> v.a # <<>>

\* ai_json.get(key, default)
DictGet(d, key, default) == IF key \in DOMAIN d.m THEN d.m[key] ELSE default

K_sql         == <<"s","q","l">>
K_python      == <<"p","y","t","h","o","n">>
K_pyspark     == <<"p","y","s","p","a","r","k">>
K_explanation == <<"e","x","p","l","a","n","a","t","i","o","n">>
K_warning     == <<"w","a","r","n","i","n","g">>
K_is_modification == <<"i","s","_","m","o","d","i","f","i","c","a","t","i","o","n">>
SelectWord    == <<"s","e","l","e","c","t">>

\* line 191, the condition of the if: "execute" when it is true, "skip" when
\* it is false, "raise" when evaluating it raises (sql is a true value that
\* is not a str, so sql.strip raises AttributeError)
Gate(ai_json) ==
  LET sql == DictGet(ai_json, K_sql, JStr(<<>>))
  IN IF ~Truthy(sql) THEN "skip"
     ELSE IF sql.t # "str" THEN "raise"
     ELSE IF \E stripped \in {Strip(sql.s)} : \E lowered \in {Lower(stripped)} :
                ~StartsWith(lowered, SelectWord) THEN "skip"
     ELSE IF Truthy(DictGet(ai_json, K_is_modification, JBool(LitFalse))) THEN "skip"
     ELSE "execute"

\* a response that drops the generated sql when the query failed (mutation
\* of ResponseBody)
ResponseBodyErased(ai_json, result) ==
  [sql         |-> IF result.kind = "error" THEN JStr(<<>>)
                   ELSE DictGet(ai_json, K_sql, JStr(<<>>)),
   python      |-> DictGet(ai_json, K_python, JStr(<<>>)),
   pyspark     |-> DictGet(ai_json, K_pyspark, JStr(<<>>)),
   explanation |-> DictGet(ai_json, K_explanation, JStr(<<>>)),
   warning     |-> DictGet(ai_json, K_warning, JStr(<<>>)),
   result      |-> result]

\* lines 196-203: the body of the response
ResponseBody(ai_json, result) ==
  [sql         |-> DictGet(ai_json, K_sql, JStr(<<>>)),
   python      |-> DictGet(ai_json, K_python, JStr(<<>>)),
   pyspark     |-> DictGet(ai_json, K_pyspark, JStr(<<>>)),
   explanation |-> DictGet(ai_json, K_explanation, JStr(<<>>)),
   warning     |-> DictGet(ai_json, K_warning, JStr(<<>>)),
   result      |-> result]

\* the two checks in the other order (mutation of Preconditions)
PreconditionsQuestionFirst(available_schemas, question) ==
  IF Strip(question) = <<>> THEN "empty_question"
  ELSE IF available_schemas = <<>> THEN "no_dataset"
  ELSE "ok"

\* the check of the question left out (mutation of Preconditions)
PreconditionsNoQuestion(available_schemas, question) ==
  IF available_schemas = <<>> THEN "no_dataset" ELSE "ok"

\* lines 142-146: the checks made on the snapshot and the question
Preconditions(available_schemas, question) ==
  IF available_schemas = <<>> THEN "no_dataset"
  ELSE IF Strip(question) = <<>> THEN "empty_question"
  ELSE "ok"

(***************************************************************************)
(* Upload batches: the files a request can carry                           *)
(***************************************************************************)
\* at most MaxFiles files are uploaded in one run, over all its batches
MaxFiles == 3

\* where uploads arrive in succession, each batch has at most MaxBatch files
MaxBatch == 2

\* where uploads run without generate_sql requests, at most MaxIngest files
\* are uploaded in one run, over all its batches
MaxIngest == 4

Col_x == <<"x">>
Col_y == <<"y">>

NoContent == [kind |-> "empty", columns |-> <<>>]
Garbage   == [kind |-> "garbage", columns |-> <<>>]
Table(columns) == [kind |-> "table", columns |-> columns]

\* file id -> the UploadFile: its filename and what read() and the pandas
\* reader make of its bytes (nothing, a frame with these columns, an error)
FileCat ==
  [f1 |-> [filename |-> <<"a",".","c","s","v">>,                 content |-> Table(<<Col_x>>)],
   f2 |-> [filename |-> <<"A",".","T","S","V">>,                 content |-> Table(<<Col_y>>)],
   f3 |-> [filename |-> <<"b",".","c","s","v">>,                 content |-> Table(<<Col_x, Col_y>>)],
   f4 |-> [filename |-> <<"n","o","t","e","s",".","t","x","t">>, content |-> Table(<<Col_x>>)],
   f5 |-> [filename |-> <<"c",".","c","s","v">>,                 content |-> NoContent],
   f6 |-> [filename |-> <<"d",".","x","l","s","x">>,             content |-> Garbage]]

\* file id -> os.path.splitext(file.filename)[1].lower(), line 74
FileExts == [f \in DOMAIN FileCat |-> FileExt(FileCat[f].filename)]

\* file id -> sanitize_table_name(file.filename), line 90
TableNames == [f \in DOMAIN FileCat |-> sanitize_table_name(FileCat[f].filename)]

\* the files drawn where uploads run beside generate_sql requests (the empty
\* file is left to the specifications of uploads alone, which draw them all)
FileIds == {"f1", "f2", "f3", "f4", "f6"}
AllFileIds == DOMAIN FileCat

\* the batches of at most n files taken from ids
BatchesOf(ids, n) == UNION {[1..k -> ids] : k \in 0..n}

\* the batches of at most n files
Batches(n) == BatchesOf(FileIds, n)

\* line 92-93: f"{table_name}({columns})" with columns joined by ", "
Descriptor(table_name, columns) ==
  table_name \o <<"(">> \o Join(columns, <<",", " ">>) \o <<")">>

\* a clear() that is forgotten (mutation of Clear)
ClearNothing(schemas) == schemas

\* a clear() that removes the first descriptor only (mutation of Clear)
ClearOne(schemas) == IF schemas = <<>> THEN <<>> ELSE Tail(schemas)

\* schemas_global.clear(), line 96
Clear(schemas) == <<>>

\* an extend() that is forgotten (mutation of Extend)
ExtendNothing(schemas, new_schemas) == schemas

\* an extend() that stops one descriptor short (mutation of Extend)
ExtendAllButLast(schemas, new_schemas) ==
  schemas \o SubSeq(new_schemas, 1, Len(new_schemas) - 1)

\* schemas_global.extend(new_schemas), line 97
Extend(schemas, new_schemas) == schemas \o new_schemas

(***************************************************************************)
(* The replies of the LLM collaborator (message.content, line 181)         *)
(***************************************************************************)
R_select == <<"{","\"","s","q","l","\"",":","\"","s","e","l","e","c","t"," ","1","\"",",",
              "\"","e","x","p","l","a","n","a","t","i","o","n","\"",":","\"","e","\"","}">>
R_fenced == <<"~","~","~","j","s","o","n","\n","{","\"","s","q","l","\"",":","\""," ",
              "S","E","L","E","C","T"," ","x","\"","}","\n","~","~","~">>
R_drop   == <<"{","\"","s","q","l","\"",":","\"","D","R","O","P"," ","T","A","B","L","E"," ","x","\"",",",
              "\"","i","s","_","m","o","d","i","f","i","c","a","t","i","o","n","\"",":","f","a","l","s","e","}">>
R_modify == <<"{","\"","s","q","l","\"",":","\"","s","e","l","e","c","t"," ","1","\"",",",
              "\"","i","s","_","m","o","d","i","f","i","c","a","t","i","o","n","\"",":","t","r","u","e","}">>
R_empty  == <<"{","}">>
R_prose  == <<"n","o","t"," ","j","s","o","n">>
R_number == <<"5">>
R_sqlnum == <<"{","\"","s","q","l","\"",":","5","}">>

Replies == {R_select, R_fenced, R_drop, R_modify, R_empty, R_prose, R_number, R_sqlnum}

Questions == { <<>>, <<" ">>, <<"q">> }

(***************************************************************************)
(* State                                                                   *)
(***************************************************************************)
\* the upload requests, in their order of arrival
UploadOrder == <<"u1", "u2">>
Uploads == Range(UploadOrder)
Gens    == {"g1"}
NoOne   == "none"

VARIABLES
  OPENAI_API_KEY,     \* whether the key is set (line 20), fixed at start-up
  schemas_global,     \* the registry (line 39)
  schema_lock,        \* the request holding the lock (line 40), or NoOne
  store,              \* the tables of the file at DB_PATH: name -> columns
  running,            \* the request the event loop is executing, or NoOne
  upc, files, idx, new_schemas, uresp,              \* upload_files requests
  gpc, question, available_schemas, ai_json, gresp, \* generate_sql requests
  called_with,        \* per generate_sql request: the registry when the request arrived
  llm_calls,          \* per generate_sql request: calls of client.chat.completions.create
  query_log,          \* per generate_sql request: the outcomes of its calls of execute_sql
  ex,                 \* a call of extract_json on its own: the text and the outcome
  sn                  \* a call of sanitize_table_name on its own: the filename and the outcome

uvars == <<upc, files, idx, new_schemas, uresp>>
gvars == <<gpc, question, available_schemas, ai_json, gresp, called_with, llm_calls, query_log, ex, sn>>
vars  == <<OPENAI_API_KEY, schemas_global, schema_lock, store, running, uvars, gvars>>

NoResp == [status |-> 0]
NoCall == [pre |-> <<>>, body |-> <<>>, post |-> <<>>, phase |-> "none", value |-> JNone]
NoNaming == [filename |-> <<>>, phase |-> "none", name |-> <<>>, again |-> <<>>]

\* no request has arrived
Quiet ==
  /\ OPENAI_API_KEY \in BOOLEAN
  /\ schemas_global = <<>>
  /\ schema_lock = NoOne
  /\ store = EmptyMap
  /\ running = NoOne
  /\ upc = [u \in Uploads |-> "idle"]
  /\ files = [u \in Uploads |-> <<>>]
  /\ idx = [u \in Uploads |-> 0]
  /\ new_schemas = [u \in Uploads |-> <<>>]
  /\ uresp = [u \in Uploads |-> NoResp]
  /\ gpc = [g \in Gens |-> "idle"]
  /\ question = [g \in Gens |-> <<>>]
  /\ available_schemas = [g \in Gens |-> <<>>]
  /\ ai_json = [g \in Gens |-> JNone]
  /\ gresp = [g \in Gens |-> NoResp]
  /\ llm_calls = [g \in Gens |-> 0]
  /\ called_with = [g \in Gens |-> <<>>]
  /\ query_log = [g \in Gens |-> <<>>]

Init == Quiet /\ ex = NoCall /\ sn = NoNaming

(***************************************************************************)
(* Scheduling.  Both handlers are coroutines of one event loop: a request  *)
(* keeps the loop until it awaits or ends.  upload_files awaits at         *)
(* file.read() (line 79); generate_sql never awaits.                       *)
(***************************************************************************)
SuspensionPoints == {"read", "done"}

\* who holds the loop once request p has moved to position pc
LoopAfter(p, pc) == IF pc \in SuspensionPoints THEN NoOne ELSE p

\* request p may take a step: it holds the loop, or the loop is free
CanRun(p) == running \in {p, NoOne}

\* the number of files of the requests of U that have arrived
RECURSIVE FilesSoFar(_)
FilesSoFar(U) ==
  IF U = {} THEN 0
  ELSE LET u == CHOOSE v \in U : TRUE IN Len(files[u]) + FilesSoFar(U \ {u})

(***************************************************************************)
(* upload_files (main.py 64-104)                                           *)
(***************************************************************************)
UploadFailed(detail) == [status |-> 500, detail |-> detail]

\* lines 65-70: the request arrives with its files (requests are numbered
\* in their order of arrival); an empty list is refused
UploadStartFrom(u, ids, n) ==
  /\ upc[u] = "idle"
  /\ CanRun(u)
  /\ \A i \in 1..Len(UploadOrder) :
        UploadOrder[i] = u => \A j \in 1..(i - 1) : upc[UploadOrder[j]] # "idle"
  /\ \E batch \in BatchesOf(ids, n) :
       /\ files' = [files EXCEPT ![u] = batch]
       /\ IF batch = <<>>
          THEN /\ upc' = [upc EXCEPT ![u] = "done"]
               /\ uresp' = [uresp EXCEPT ![u] = [status |-> 400, detail |-> "No files provided"]]
               /\ idx' = idx
          ELSE /\ upc' = [upc EXCEPT ![u] = "loop"]
               /\ idx' = [idx EXCEPT ![u] = 1]
               /\ uresp' = uresp
  /\ running' = LoopAfter(u, upc'[u])
  /\ UNCHANGED <<OPENAI_API_KEY, schemas_global, schema_lock, store, new_schemas, gvars>>

\* the arrival where uploads run beside generate_sql requests
UploadStart(u) == UploadStartFrom(u, FileIds, MaxFiles - FilesSoFar(Uploads))

\* lines 73-79: the head of the loop; an unsupported extension is skipped,
\* a supported one leads to the await of file.read()
UploadNextFile(u) ==
  /\ upc[u] = "loop"
  /\ CanRun(u)
  /\ IF idx[u] > Len(files[u])
     THEN /\ upc' = [upc EXCEPT ![u] = "lock"]
          /\ idx' = idx
     ELSE IF FileExts[files[u][idx[u]]] \notin ALLOWED_EXTENSIONS
     THEN /\ upc' = upc
          /\ idx' = [idx EXCEPT ![u] = @ + 1]
     ELSE /\ upc' = [upc EXCEPT ![u] = "read"]
          /\ idx' = idx
  /\ running' = LoopAfter(u, upc'[u])
  /\ UNCHANGED <<OPENAI_API_KEY, schemas_global, schema_lock, store, files, new_schemas, uresp, gvars>>

\* a loop that goes on to the next file when the reader raises
UploadLoadSkipsBadFile(u) ==
  LET file       == FileCat[files[u][idx[u]]]
      table_name == TableNames[files[u][idx[u]]]
      columns    == file.content.columns
  IN /\ upc[u] = "read"
     /\ CanRun(u)
     /\ IF file.content.kind \in {"empty", "garbage"}
        THEN /\ upc' = [upc EXCEPT ![u] = "loop"]
             /\ idx' = [idx EXCEPT ![u] = @ + 1]
             /\ UNCHANGED <<store, new_schemas, uresp>>
        ELSE /\ store' = [n \in DOMAIN store \cup {table_name} |->
                            IF n = table_name THEN columns
                            ELSE store[n]]
             /\ new_schemas' = [new_schemas EXCEPT ![u] = Append(@, Descriptor(table_name, columns))]
             /\ upc' = [upc EXCEPT ![u] = "loop"]
             /\ idx' = [idx EXCEPT ![u] = @ + 1]
             /\ uresp' = uresp
     /\ running' = LoopAfter(u, upc'[u])
     /\ UNCHANGED <<OPENAI_API_KEY, schemas_global, schema_lock, files, gvars>>

\* lines 79-93: the read completes and the coroutine resumes; empty content
\* is skipped, a reader error ends the request (lines 100-104), otherwise
\* the frame replaces the table of its derived name and is described
UploadLoad(u) ==
  LET file       == FileCat[files[u][idx[u]]]
      table_name == TableNames[files[u][idx[u]]]
      columns    == file.content.columns
  IN /\ upc[u] = "read"
     /\ CanRun(u)
     /\ IF file.content.kind = "empty"
        THEN /\ upc' = [upc EXCEPT ![u] = "loop"]
             /\ idx' = [idx EXCEPT ![u] = @ + 1]
             /\ UNCHANGED <<store, new_schemas, uresp>>
        ELSE IF file.content.kind = "garbage"
        THEN /\ upc' = [upc EXCEPT ![u] = "done"]
             /\ uresp' = [uresp EXCEPT ![u] = UploadFailed("Upload failed")]
             /\ UNCHANGED <<store, new_schemas, idx>>
        ELSE /\ store' = [n \in DOMAIN store \cup {table_name} |->
                            IF n = table_name THEN columns
                            ELSE store[n]]
             /\ new_schemas' = [new_schemas EXCEPT ![u] = Append(@, Descriptor(table_name, columns))]
             /\ upc' = [upc EXCEPT ![u] = "loop"]
             /\ idx' = [idx EXCEPT ![u] = @ + 1]
             /\ uresp' = uresp
     /\ running' = LoopAfter(u, upc'[u])
     /\ UNCHANGED <<OPENAI_API_KEY, schemas_global, schema_lock, files, gvars>>

\* line 95: with schema_lock (acquire)
UploadAcquire(u) ==
  /\ upc[u] = "lock"
  /\ CanRun(u)
  /\ schema_lock = NoOne
  /\ schema_lock' = u
  /\ upc' = [upc EXCEPT ![u] = "clear"]
  /\ running' = LoopAfter(u, upc'[u])
  /\ UNCHANGED <<OPENAI_API_KEY, schemas_global, store, files, idx, new_schemas, uresp, gvars>>

\* line 96: schemas_global.clear()
UploadClear(u) ==
  /\ upc[u] = "clear"
  /\ CanRun(u)
  /\ schemas_global' = Clear(schemas_global)
  /\ upc' = [upc EXCEPT ![u] = "extend"]
  /\ running' = LoopAfter(u, upc'[u])
  /\ UNCHANGED <<OPENAI_API_KEY, schema_lock, store, files, idx, new_schemas, uresp, gvars>>

\* line 97: schemas_global.extend(new_schemas)
UploadExtend(u) ==
  /\ upc[u] = "extend"
  /\ CanRun(u)
  /\ schemas_global' = Extend(schemas_global, new_schemas[u])
  /\ upc' = [upc EXCEPT ![u] = "release"]
  /\ running' = LoopAfter(u, upc'[u])
  /\ UNCHANGED <<OPENAI_API_KEY, schema_lock, store, files, idx, new_schemas, uresp, gvars>>

\* a with block that is left without releasing the lock
UploadReleaseKeepsLock(u) ==
  /\ upc[u] = "release"
  /\ CanRun(u)
  /\ schema_lock' = schema_lock
  /\ upc' = [upc EXCEPT ![u] = "return"]
  /\ running' = LoopAfter(u, upc'[u])
  /\ UNCHANGED <<OPENAI_API_KEY, schemas_global, store, files, idx, new_schemas, uresp, gvars>>

\* the end of the with block of line 95 (release)
UploadRelease(u) ==
  /\ upc[u] = "release"
  /\ CanRun(u)
  /\ schema_lock' = NoOne
  /\ upc' = [upc EXCEPT ![u] = "return"]
  /\ running' = LoopAfter(u, upc'[u])
  /\ UNCHANGED <<OPENAI_API_KEY, schemas_global, store, files, idx, new_schemas, uresp, gvars>>

\* line 99: the response carries schemas_global, read here without the lock
UploadReturn(u) ==
  /\ upc[u] = "return"
  /\ CanRun(u)
  /\ uresp' = [uresp EXCEPT ![u] = [status |-> 200, schemas |-> schemas_global]]
  /\ upc' = [upc EXCEPT ![u] = "done"]
  /\ running' = LoopAfter(u, upc'[u])
  /\ UNCHANGED <<OPENAI_API_KEY, schemas_global, schema_lock, store, files, idx, new_schemas, gvars>>

(***************************************************************************)
(* generate_sql (main.py 134-203) and execute_sql (main.py 107-113)        *)
(***************************************************************************)
GenFailed(status, detail) == [status |-> status, detail |-> detail]

NoResult == [kind |-> "null"]
ErrorResult(message) == [kind |-> "error", error |-> message]
\* df.to_dict(orient="records"); the rows are those of the tables in the store
RowsResult(tables) == [kind |-> "rows", of |-> tables]

\* lines 135-137: the request arrives; without the key it is refused
GenStart(g) ==
  /\ gpc[g] = "idle"
  /\ CanRun(g)
  /\ \E q \in Questions : question' = [question EXCEPT ![g] = q]
  /\ called_with' = [called_with EXCEPT ![g] = schemas_global]
  /\ IF ~OPENAI_API_KEY
     THEN /\ gpc' = [gpc EXCEPT ![g] = "done"]
          /\ gresp' = [gresp EXCEPT ![g] = GenFailed(503, "OPENAI_API_KEY is not configured")]
     ELSE /\ gpc' = [gpc EXCEPT ![g] = "lock"]
          /\ gresp' = gresp
  /\ running' = LoopAfter(g, gpc'[g])
  /\ UNCHANGED <<OPENAI_API_KEY, schemas_global, schema_lock, store, uvars,
                 available_schemas, ai_json, llm_calls, query_log, ex, sn>>

\* line 139: with schema_lock (acquire)
GenAcquire(g) ==
  /\ gpc[g] = "lock"
  /\ CanRun(g)
  /\ schema_lock = NoOne
  /\ schema_lock' = g
  /\ gpc' = [gpc EXCEPT ![g] = "snapshot"]
  /\ running' = LoopAfter(g, gpc'[g])
  /\ UNCHANGED <<OPENAI_API_KEY, schemas_global, store, uvars,
                 question, available_schemas, ai_json, gresp, called_with, llm_calls, query_log, ex, sn>>

\* a snapshot that leaves the with block without releasing the lock
\* (mutation of GenSnapshot)
GenSnapshotKeepsLock(g) ==
  /\ gpc[g] = "snapshot"
  /\ CanRun(g)
  /\ available_schemas' = [available_schemas EXCEPT ![g] = schemas_global]
  /\ gpc' = [gpc EXCEPT ![g] = "check"]
  /\ running' = LoopAfter(g, gpc'[g])
  /\ UNCHANGED <<OPENAI_API_KEY, schemas_global, schema_lock, store, uvars,
                 question, ai_json, gresp, called_with, llm_calls, query_log, ex, sn>>

\* line 140: available_schemas = list(schemas_global), then the release
GenSnapshot(g) ==
  /\ gpc[g] = "snapshot"
  /\ CanRun(g)
  /\ available_schemas' = [available_schemas EXCEPT ![g] = schemas_global]
  /\ schema_lock' = NoOne
  /\ gpc' = [gpc EXCEPT ![g] = "check"]
  /\ running' = LoopAfter(g, gpc'[g])
  /\ UNCHANGED <<OPENAI_API_KEY, schemas_global, store, uvars,
                 question, ai_json, gresp, called_with, llm_calls, query_log, ex, sn>>

\* lines 142-146: no dataset, or a blank question, is refused
GenCheck(g) ==
  LET verdict == Preconditions(available_schemas[g], question[g])
  IN /\ gpc[g] = "check"
     /\ CanRun(g)
     /\ IF verdict = "no_dataset"
        THEN /\ gpc' = [gpc EXCEPT ![g] = "done"]
             /\ gresp' = [gresp EXCEPT ![g] = GenFailed(400, "No dataset uploaded")]
        ELSE IF verdict = "empty_question"
        THEN /\ gpc' = [gpc EXCEPT ![g] = "done"]
             /\ gresp' = [gresp EXCEPT ![g] = GenFailed(400, "Question cannot be empty")]
        ELSE /\ gpc' = [gpc EXCEPT ![g] = "llm"]
             /\ gresp' = gresp
     /\ running' = LoopAfter(g, gpc'[g])
     /\ UNCHANGED <<OPENAI_API_KEY, schemas_global, schema_lock, store, uvars,
                    question, available_schemas, ai_json, called_with, llm_calls, query_log, ex, sn>>

\* lines 175-185: the call of the collaborator and the extraction.  The call
\* raises or answers with reply; a ValueError of extract_json
\* and an error of the call both end the request with status 500
GenCallLLM(g) ==
  /\ gpc[g] = "llm"
  /\ CanRun(g)
  /\ llm_calls' = [llm_calls EXCEPT ![g] = @ + 1]
  /\ \/ /\ gpc' = [gpc EXCEPT ![g] = "done"]
        /\ gresp' = [gresp EXCEPT ![g] = GenFailed(500, "Generation failed")]
        /\ ai_json' = ai_json
     \/ \E reply \in Replies : \E extracted \in {extract_json(reply)} :
          IF ~extracted.ok
          THEN /\ gpc' = [gpc EXCEPT ![g] = "done"]
               /\ gresp' = [gresp EXCEPT ![g] = GenFailed(500, "Generation failed")]
               /\ ai_json' = ai_json
          ELSE /\ gpc' = [gpc EXCEPT ![g] = "gate"]
               /\ ai_json' = [ai_json EXCEPT ![g] = extracted.v]
               /\ gresp' = gresp
  /\ running' = LoopAfter(g, gpc'[g])
  /\ UNCHANGED <<OPENAI_API_KEY, schemas_global, schema_lock, store, uvars,
                 question, available_schemas, called_with, query_log, ex, sn>>

\* lines 187-194 up to the call of execute_sql.  ai_json.get on a value that
\* is not a dict raises AttributeError outside every try: the request ends
\* with an unhandled exception.  An error raised by the condition of line
\* 191 is caught at line 193
GenGate(g) ==
  /\ gpc[g] = "gate"
  /\ CanRun(g)
  /\ IF ai_json[g].t # "dict"
     THEN /\ gpc' = [gpc EXCEPT ![g] = "done"]
          /\ gresp' = [gresp EXCEPT ![g] = GenFailed(500, "Internal Server Error")]
     ELSE \E gate \in {Gate(ai_json[g])} :
            IF gate = "execute"
            THEN /\ gpc' = [gpc EXCEPT ![g] = "execute"]
                 /\ gresp' = gresp
            ELSE /\ gpc' = [gpc EXCEPT ![g] = "done"]
                 /\ gresp' = [gresp EXCEPT ![g] =
                       [status |-> 200,
                        body |-> ResponseBody(ai_json[g],
                                    IF gate = "raise"
                                    THEN ErrorResult("AttributeError") ELSE NoResult)]]
  /\ running' = LoopAfter(g, gpc'[g])
  /\ UNCHANGED <<OPENAI_API_KEY, schemas_global, schema_lock, store, uvars,
                 question, available_schemas, ai_json, called_with, llm_calls, query_log, ex, sn>>

\* lines 192-203 with execute_sql: the engine answers with rows or raises
\* (engine_error), which line 194 turns into an error result
GenExecute(g) ==
  /\ gpc[g] = "execute"
  /\ CanRun(g)
  /\ \E engine_error \in BOOLEAN :
       /\ query_log' = [query_log EXCEPT ![g] = Append(@, IF engine_error THEN "error" ELSE "rows")]
       /\ gresp' = [gresp EXCEPT ![g] =
             [status |-> 200,
              body |-> ResponseBody(ai_json[g],
                          IF engine_error THEN ErrorResult("DatabaseError")
                          ELSE RowsResult(DOMAIN store))]]
  /\ gpc' = [gpc EXCEPT ![g] = "done"]
  /\ running' = LoopAfter(g, gpc'[g])
  /\ UNCHANGED <<OPENAI_API_KEY, schemas_global, schema_lock, store, uvars,
                 question, available_schemas, ai_json, called_with, llm_calls, ex, sn>>

Next ==
  \/ \E u \in Uploads : UploadStart(u)
  \/ \E u \in Uploads : UploadNextFile(u)
  \/ \E u \in Uploads : UploadLoad(u)
  \/ \E u \in Uploads : UploadAcquire(u)
  \/ \E u \in Uploads : UploadClear(u)
  \/ \E u \in Uploads : UploadExtend(u)
  \/ \E u \in Uploads : UploadRelease(u)
  \/ \E u \in Uploads : UploadReturn(u)
  \/ \E g \in Gens : GenStart(g)
  \/ \E g \in Gens : GenAcquire(g)
  \/ \E g \in Gens : GenSnapshot(g)
  \/ \E g \in Gens : GenCheck(g)
  \/ \E g \in Gens : GenCallLLM(g)
  \/ \E g \in Gens : GenGate(g)
  \/ \E g \in Gens : GenExecute(g)

Spec == Init /\ [][Next]_vars

\* the steps of one request once it has arrived
UploadRun(u) ==
  \/ UploadNextFile(u) \/ UploadLoad(u) \/ UploadAcquire(u) \/ UploadClear(u)
  \/ UploadExtend(u) \/ UploadRelease(u) \/ UploadReturn(u)

GenRun(g) ==
  \/ GenAcquire(g) \/ GenSnapshot(g) \/ GenCheck(g)
  \/ GenCallLLM(g) \/ GenGate(g) \/ GenExecute(g)

\* the event loop resumes every coroutine that is ready, a read of a file
\* completes, and a call that does not await returns: a request that can
\* take a step takes it; nothing makes a client send a request
Fairness ==
  /\ \A u \in Uploads : WF_vars(UploadRun(u))
  /\ \A g \in Gens : WF_vars(GenRun(g))

FairSpec == Spec /\ Fairness

(***************************************************************************)
(* upload_files on its own: no generate_sql request arrives, and the       *)
(* batches are drawn from every file of the catalogue                      *)
(***************************************************************************)
\* the steps of upload_files after the arrival
UploadSteps ==
  \/ \E u \in Uploads : UploadNextFile(u)
  \/ \E u \in Uploads : UploadLoad(u)
  \/ \E u \in Uploads : UploadAcquire(u)
  \/ \E u \in Uploads : UploadClear(u)
  \/ \E u \in Uploads : UploadExtend(u)
  \/ \E u \in Uploads : UploadRelease(u)
  \/ \E u \in Uploads : UploadReturn(u)

\* concurrent uploads
UploadStartAny(u) == UploadStartFrom(u, AllFileIds, MaxIngest - FilesSoFar(Uploads))

NextIngest ==
  \/ \E u \in Uploads : UploadStartAny(u)
  \/ UploadSteps

SpecIngest == Init /\ [][NextIngest]_vars

\* uploads in succession: a request arrives when no other is in progress
UploadStartAlone(u) ==
  /\ \A v \in Uploads : upc[v] \in {"idle", "done"}
  /\ UploadStartFrom(u, AllFileIds, MaxBatch)

NextSequence ==
  \/ \E u \in Uploads : UploadStartAlone(u)
  \/ UploadSteps

SpecSequence == Init /\ [][NextSequence]_vars

(***************************************************************************)
(* extract_json on its own: one call on a text made of a prefix, a body    *)
(* and a suffix                                                            *)
(***************************************************************************)
P_none       == <<>>
P_fence_json == <<"~","~","~","j","s","o","n","\n">>
P_fence      == <<"~","~","~","\n">>
P_fence_sql  == <<"~","~","~","s","q","l","\n">>
P_prose      == <<"H","e","r","e"," ","y","o","u"," ","g","o",":"," ">>
Q_none       == <<>>
Q_fence      == <<"\n","~","~","~">>
Q_prose      == <<" ","H","o","p","e"," ","t","h","a","t"," ","h","e","l","p","s","!">>

J_sql    == <<"{","\"","s","q","l","\"",":","\"","s","e","l","e","c","t"," ","1","\"","}">>
J_two    == <<"{","\"","a","\"",":","\"","b","\"",",","\"","c","\"",":","t","r","u","e","}">>
J_nested == <<"{","\"","a","\"",":","{","\"","b","\"",":","[","1","]","}","}">>
J_ticks  == <<"{","\"","a","\"",":","\"","~","~","~","\"","}">>
J_tagged == <<"{","\"","a","\"",":","\"","~","~","~","j","s","o","n","\"","}">>
J_empty  == <<"{","}">>
V_number == <<"5">>
V_null   == <<"n","u","l","l">>
V_list   == <<"[","1","]">>
V_string == <<"\"","s","\"">>
V_true   == <<"t","r","u","e">>
X_prose  == <<"n","o","t"," ","j","s","o","n"," ","a","t"," ","a","l","l">>
X_open   == <<"{","\"","a","\"",":","1">>
X_colon  == <<"{","\"","a","\"",":","}">>
X_blank  == <<>>

FencePrefixes == {P_fence_json, P_fence, P_fence_sql}
Prefixes == {P_none, P_prose} \cup FencePrefixes
Suffixes == {Q_none, Q_fence, Q_prose}
Bodies   == {J_sql, J_two, J_nested, J_ticks, J_tagged, J_empty,
             V_number, V_null, V_list, V_string, V_true,
             X_prose, X_open, X_colon, X_blank}

InitExtract ==
  /\ Quiet
  /\ ex \in [pre : Prefixes, body : Bodies, post : Suffixes, phase : {"call"}, value : {JNone}]
  /\ sn = NoNaming

\* extract_json(pre + body + post) returns a value or raises ValueError
ExtractCall ==
  /\ ex.phase = "call"
  /\ \E r \in {extract_json(ex.pre \o ex.body \o ex.post)} :
       ex' = [ex EXCEPT !.phase = IF r.ok THEN "returned" ELSE "raised",
                        !.value = r.v]
  /\ UNCHANGED <<OPENAI_API_KEY, schemas_global, schema_lock, store, running, uvars,
                 gpc, question, available_schemas, ai_json, gresp,
                 called_with, llm_calls, query_log, sn>>

NextExtract == ExtractCall

SpecExtract == InitExtract /\ [][NextExtract]_vars

(***************************************************************************)
(* sanitize_table_name on its own: one call on a filename, then one call   *)
(* on the name it returned with an extension appended                      *)
(***************************************************************************)
\* filenames have at most MaxName characters
MaxName == 4

NameAlphabet == {"a", "B", "1", "_", "-", " ", ".", "/"}
Filenames == UNION {[1..k -> NameAlphabet] : k \in 0..MaxName}
CsvExt == <<".","c","s","v">>

InitSanitize ==
  /\ Quiet
  /\ ex = NoCall
  /\ sn \in [filename : Filenames, phase : {"call"}, name : {<<>>}, again : {<<>>}]

\* table_name = sanitize_table_name(filename), line 90
SanitizeCall ==
  /\ sn.phase = "call"
  /\ sn' = [sn EXCEPT !.phase = "named", !.name = sanitize_table_name(sn.filename)]
  /\ UNCHANGED <<OPENAI_API_KEY, schemas_global, schema_lock, store, running, uvars,
                 gpc, question, available_schemas, ai_json, gresp,
                 called_with, llm_calls, query_log, ex>>

\* sanitize_table_name(table_name + ".csv")
SanitizeAgain ==
  /\ sn.phase = "named"
  /\ sn' = [sn EXCEPT !.phase = "renamed", !.again = sanitize_table_name(sn.name \o CsvExt)]
  /\ UNCHANGED <<OPENAI_API_KEY, schemas_global, schema_lock, store, running, uvars,
                 gpc, question, available_schemas, ai_json, gresp,
                 called_with, llm_calls, query_log, ex>>

NextSanitize == SanitizeCall \/ SanitizeAgain

SpecSanitize == InitSanitize /\ [][NextSanitize]_vars

(***************************************************************************)
(* Properties                                                              *)
(***************************************************************************)
\* the table name of a descriptor name(col, ...): the text before the "("
DescriptorName(d) == SubSeq(d, 1, Find(d, "(") - 1)

RegistryNames == {DescriptorName(schemas_global[i]) : i \in 1..Len(schemas_global)}

NoUploadInProgress == \A u \in Uploads : upc[u] \in {"idle", "done"}

\* every batch that has arrived has completed with "Files uploaded"
AllBatchesCompleted == \A u \in Uploads : upc[u] = "done" => uresp[u].status = 200

Succeeded(u) == upc[u] = "done" /\ uresp[u].status = 200

\* C1: whenever no upload is in progress (and every batch so far has
\* completed), the tables of the store are exactly the tables named in the
\* registry: nothing of an earlier batch is left in the store.
C1_StoreHoldsOnlyLastBatch ==
  (NoUploadInProgress /\ AllBatchesCompleted) => DOMAIN store = RegistryNames

\* C2: every snapshot taken by generate_sql is the initial empty list or the
\* whole descriptor list of one upload batch that wrote the registry, and no
\* snapshot is taken while a batch is between its clear and the end of its
\* extend.
C2_SnapshotIsWholeBatch ==
  \A g \in Gens :
    /\ gpc[g] = "snapshot" => \A u \in Uploads : upc[u] \notin {"clear", "extend", "release"}
    /\ gpc[g] \in {"check", "llm", "gate", "execute", "done"}
         => \/ available_schemas[g] = <<>>
            \/ \E u \in Uploads :
                 /\ upc[u] \in {"release", "return"} \/ Succeeded(u)
                 /\ available_schemas[g] = new_schemas[u]

\* a snapshot of a whole batch was taken while another batch, which has
\* loaded a table already, waits for a file
C2_Witness ==
  \E g \in Gens : \E u, v \in Uploads :
    /\ u # v
    /\ gpc[g] = "check"
    /\ available_schemas[g] # <<>>
    /\ available_schemas[g] = new_schemas[u]
    /\ upc[v] = "read"
    /\ new_schemas[v] # <<>>

\* the gate as the specification words it: sql is a text that is not blank,
\* is_modification is false or absent, the trimmed lower-cased sql begins
\* with select
GatePasses(command) ==
  LET sql == IF K_sql \in DOMAIN command.m THEN command.m[K_sql] ELSE JStr(<<>>)
  IN /\ sql.t = "str"
     /\ Strip(sql.s) # <<>>
     /\ K_is_modification \in DOMAIN command.m => command.m[K_is_modification] = JBool(LitFalse)
     /\ StartsWith(Lower(Strip(sql.s)), SelectWord)

\* C3: execute_sql is called only for a command that passes the gate; for
\* every other extracted command no query is run, the request returns
\* normally and its result is null.
C3_OnlyGatedQueriesRun ==
  \A g \in Gens :
    /\ query_log[g] # <<>> => GatePasses(ai_json[g])
    /\ gpc[g] = "done" /\ ai_json[g].t = "dict" /\ ~GatePasses(ai_json[g])
         => /\ query_log[g] = <<>>
            /\ gresp[g].status = 200
            /\ gresp[g].body.result = NoResult

\* the field of a command, the empty string when it is absent
FieldOrEmpty(command, key) == IF key \in DOMAIN command.m THEN command.m[key] ELSE JStr(<<>>)

\* C4: when the gate passes and the query fails, the request returns
\* normally with result = {error: the engine's message} and with sql, python,
\* pyspark, explanation and warning equal to the fields of the extracted
\* command ("" when absent).
C4_QueryFailureIsContained ==
  \A g \in Gens :
    gpc[g] = "done" /\ query_log[g] # <<>> /\ query_log[g][Len(query_log[g])] = "error"
      => /\ gresp[g].status = 200
         /\ gresp[g].body.result = ErrorResult("DatabaseError")
         /\ gresp[g].body.sql = FieldOrEmpty(ai_json[g], K_sql)
         /\ gresp[g].body.python = FieldOrEmpty(ai_json[g], K_python)
         /\ gresp[g].body.pyspark = FieldOrEmpty(ai_json[g], K_pyspark)
         /\ gresp[g].body.explanation = FieldOrEmpty(ai_json[g], K_explanation)
         /\ gresp[g].body.warning = FieldOrEmpty(ai_json[g], K_warning)

\* a request whose query failed has returned, its command carrying an
\* explanation besides the sql
C4_Witness ==
  \E g \in Gens :
    /\ gpc[g] = "done"
    /\ query_log[g] = <<"error">>
    /\ K_explanation \in DOMAIN ai_json[g].m
    /\ gresp[g].body.sql.s # <<>>

\* the positions of the files of a batch that are loaded: recognized
\* extension, content that is a table
LoadedAt(batch) ==
  {i \in 1..Len(batch) :
     /\ FileExt(FileCat[batch[i]].filename) \in ALLOWED_EXTENSIONS
     /\ FileCat[batch[i]].content.kind = "table"}

NameAt(batch, i) == sanitize_table_name(FileCat[batch[i]].filename)

\* C5: right after a batch has replaced the registry, the registry holds one
\* descriptor per distinct derived table name of the batch, that of the last
\* file deriving the name: names are pairwise distinct.
C5_CollisionsCollapse ==
  \A u \in Uploads :
    upc[u] = "release" =>
      LET batch == files[u]
          last(i) == \A j \in LoadedAt(batch) : NameAt(batch, j) = NameAt(batch, i) => j <= i
      IN /\ \A i, j \in 1..Len(schemas_global) :
              i # j => DescriptorName(schemas_global[i]) # DescriptorName(schemas_global[j])
         /\ Len(schemas_global) = Cardinality({NameAt(batch, i) : i \in LoadedAt(batch)})
         /\ \A k \in 1..Len(schemas_global) :
              \E i \in LoadedAt(batch) :
                /\ last(i)
                /\ schemas_global[k] = Descriptor(NameAt(batch, i), FileCat[batch[i]].content.columns)

\* C6: the schemas of a successful upload's response are the descriptors of
\* its own batch, in order.
C6_ResponseIsOwnBatch ==
  \A u \in Uploads : Succeeded(u) => uresp[u].schemas = new_schemas[u]

\* an upload has answered with its descriptors, and the registry now holds
\* the different descriptors of another batch that ran beside it
C6_Witness ==
  \E u, v \in Uploads :
    /\ u # v
    /\ Succeeded(u) /\ Succeeded(v)
    /\ uresp[u].schemas # <<>>
    /\ new_schemas[v] # <<>>
    /\ schemas_global = new_schemas[v]
    /\ schemas_global # uresp[u].schemas

NoDataset     == [status |-> 400, detail |-> "No dataset uploaded"]
EmptyQuestion == [status |-> 400, detail |-> "Question cannot be empty"]
Unavailable   == [status |-> 503, detail |-> "OPENAI_API_KEY is not configured"]

\* C7 as stated: a generate_sql request that arrived while the registry was
\* empty fails with the no-dataset error, whatever the question and whether
\* or not the LLM collaborator is configured.
C7_NoDatasetAlways ==
  \A g \in Gens : gpc[g] = "done" /\ called_with[g] = <<>> => gresp[g] = NoDataset

\* C7 as amended: a generate_sql request that arrived while the registry was
\* empty fails with the no-dataset error, whatever the question, when the
\* key is configured; when it is not, it fails with the 503 error.
C7_NoDatasetWhenConfigured ==
  \A g \in Gens :
    gpc[g] = "done" /\ called_with[g] = <<>>
      => gresp[g] = IF OPENAI_API_KEY THEN NoDataset ELSE Unavailable

\* a request with a blank question met an empty registry, the key being set
C7_Witness ==
  \E g \in Gens :
    /\ gpc[g] = "done"
    /\ called_with[g] = <<>>
    /\ OPENAI_API_KEY
    /\ Strip(question[g]) = <<>>
    /\ gresp[g] = NoDataset

\* C8: a request that ends with the no-dataset, empty-question or
\* unavailable error has called neither the LLM nor the store, and the LLM
\* is called only when the key is set, the snapshot is not empty and the
\* question is not blank.
C8_FailFast ==
  \A g \in Gens :
    /\ gpc[g] = "done" /\ gresp[g] \in {NoDataset, EmptyQuestion, Unavailable}
         => llm_calls[g] = 0 /\ query_log[g] = <<>>
    /\ llm_calls[g] > 0
         => OPENAI_API_KEY /\ available_schemas[g] # <<>> /\ Strip(question[g]) # <<>>
    /\ query_log[g] # <<>> => llm_calls[g] > 0

\* a request was refused for its blank question, a dataset being there
C8_Witness ==
  \E g \in Gens :
    /\ gpc[g] = "done"
    /\ gresp[g] = EmptyQuestion
    /\ available_schemas[g] # <<>>

\* C9: a call of extract_json that returns, returns a command object (a
\* mapping), never a number, a string, a list or null.
C9_ExtractReturnsObject ==
  ex.phase = "returned" => ex.value.t = "dict"

\* the wrappings C10 names: none, a leading and a trailing fence with any
\* language tag, prose without braces on both sides
Wrapped == ({P_none} \X {Q_none}) \cup (FencePrefixes \X {Q_fence}) \cup ({P_prose} \X {Q_prose})

\* C10: for a body that is the text of a JSON object, extract_json of the
\* body alone, of the body between fences and of the body within prose
\* returns what parsing the body returns, its content unchanged.
C10_WrappingIsTransparent ==
  (/\ ex.phase # "call"
   /\ json_loads(ex.body).ok
   /\ json_loads(ex.body).v.t = "dict"
   /\ <<ex.pre, ex.post>> \in Wrapped)
    => ex.phase = "returned" /\ ex.value = json_loads(ex.body).v

\* the registry once upload u has ended: what u answered with (line 99
\* returns the registry itself), the initial empty registry when u failed
\* before any other upload had arrived
RegistryAfterFirst(u) == IF Succeeded(u) THEN uresp[u].schemas ELSE <<>>

\* C11: when the same batch is uploaded twice in succession, the registry
\* after the second upload equals, in content and order, the registry after
\* the first.
C11_ReuploadIsIdempotent ==
  (/\ upc[UploadOrder[1]] = "done"
   /\ upc[UploadOrder[2]] = "done"
   /\ files[UploadOrder[1]] = files[UploadOrder[2]])
    => schemas_global = RegistryAfterFirst(UploadOrder[1])

\* a batch of two tables has been uploaded twice, one upload after the other
C11_Witness ==
  /\ Succeeded(UploadOrder[1]) /\ Succeeded(UploadOrder[2])
  /\ files[UploadOrder[1]] = files[UploadOrder[2]]
  /\ Len(schemas_global) = 2
  /\ schemas_global = uresp[UploadOrder[1]].schemas

\* the extensions the specification recognizes
RecognizedExtensions == { <<".","c","s","v">>, <<".","x","l","s","x">>, <<".","t","s","v">> }

\* the files that are not skipped: a recognized extension, whatever its
\* case, and content that is not empty
KeptFiles ==
  {f \in AllFileIds :
     /\ Lower(SplitExt(FileCat[f].filename)[2]) \in RecognizedExtensions
     /\ FileCat[f].content.kind # "empty"}

Kept(f) == f \in KeptFiles

\* file -> the table name derived from its filename
NameOf == [f \in AllFileIds |-> sanitize_table_name(FileCat[f].filename)]

\* file -> its descriptor name(col1, col2, ...), columns in header order
DescriptorOf == [f \in AllFileIds |-> Descriptor(NameOf[f], FileCat[f].content.columns)]

\* one descriptor per kept file, in batch order
RECURSIVE ExpectedRegistry(_)
ExpectedRegistry(batch) ==
  IF batch = <<>> THEN <<>>
  ELSE (IF Kept(batch[1]) THEN <<DescriptorOf[batch[1]]>> ELSE <<>>)
         \o ExpectedRegistry(Tail(batch))

\* the derived table names of the kept files of a batch are pairwise distinct
DistinctNames(batch) ==
  \A i, j \in 1..Len(batch) :
    (i # j /\ Kept(batch[i]) /\ Kept(batch[j])) => NameOf[batch[i]] # NameOf[batch[j]]

\* the table names of the kept files of a batch
KeptNamesOf(batch) == {NameOf[batch[i]] : i \in {k \in 1..Len(batch) : Kept(batch[k])}}

\* the table names of the kept files of the batches that have arrived
KeptNames == UNION {KeptNamesOf(files[v]) : v \in Uploads}

\* C12: right after a batch with pairwise distinct table names has replaced
\* the registry, the registry is exactly one descriptor per kept file of the
\* batch, in batch order, and nothing of its previous content; a skipped
\* file (other extension, or empty content) fails no batch and leaves no
\* table.
C12_RegistryIsBatch ==
  /\ \A u \in Uploads :
        upc[u] = "release" /\ DistinctNames(files[u])
          => schemas_global = ExpectedRegistry(files[u])
  /\ \A u \in Uploads :
        upc[u] = "done" /\ files[u] # <<>> /\ (\A i \in 1..Len(files[u]) : ~Kept(files[u][i]))
          => Succeeded(u)
  /\ DOMAIN store \subseteq KeptNames

\* a batch with a text file, an empty file and a table has just replaced
\* the registry, which held the descriptor of another batch
C12_Witness ==
  \E u, v \in Uploads :
    /\ u # v
    /\ upc[u] = "release"
    /\ DistinctNames(files[u])
    /\ \E i \in 1..Len(files[u]) : FileCat[files[u][i]].content.kind = "empty"
    /\ \E i \in 1..Len(files[u]) :
         Lower(SplitExt(FileCat[files[u][i]].filename)[2]) \notin RecognizedExtensions
    /\ Len(schemas_global) = 1
    /\ Succeeded(v)
    /\ uresp[v].schemas # <<>>
    /\ uresp[v].schemas # schemas_global

\* a letter or a digit
IsAlnum(c) == c \in Digits \/ c \in Range(LowerCase) \/ c \in Range(UpperCase)

\* s from position i on, letters lower-cased and every maximal run of other
\* characters replaced by one underscore (inRun: s[i - 1] is in such a run)
RECURSIVE RunsToUnderscore(_, _, _)
RunsToUnderscore(s, i, inRun) ==
  IF i > Len(s) THEN <<>>
  ELSE IF IsAlnum(s[i]) THEN <<LowerChar(s[i])>> \o RunsToUnderscore(s, i + 1, FALSE)
  ELSE (IF inRun THEN <<>> ELSE <<"_">>) \o RunsToUnderscore(s, i + 1, TRUE)

\* s without its leading and its trailing underscore
TrimUnderscore(s) ==
  SubSeq(s, IF s # <<>> /\ s[1] = "_" THEN 2 ELSE 1,
            IF s # <<>> /\ s[Len(s)] = "_" THEN Len(s) - 1 ELSE Len(s))

\* the name the specification derives from a filename
ExpectedName(filename) ==
  IF TrimUnderscore(RunsToUnderscore(SplitExt(filename)[1], 1, FALSE)) = <<>>
  THEN <<"u","p","l","o","a","d","e","d","_","t","a","b","l","e">>
  ELSE TrimUnderscore(RunsToUnderscore(SplitExt(filename)[1], 1, FALSE))

\* a text of [a-z0-9_], not empty, without two adjacent underscores and
\* without a leading or trailing underscore
WellFormedName(n) ==
  /\ n # <<>>
  /\ \A i \in 1..Len(n) : n[i] \in Digits \/ n[i] \in Range(LowerCase) \/ n[i] = "_"
  /\ \A i \in 1..(Len(n) - 1) : ~(n[i] = "_" /\ n[i + 1] = "_")
  /\ n[1] # "_" /\ n[Len(n)] # "_"

\* C13: the name sanitize_table_name returns is the extension-stripped
\* filename, lower-cased, runs of non-alphanumeric characters replaced by one
\* underscore and outer underscores removed, or uploaded_table when that is
\* empty; it is well formed, and sanitizing it again with an extension
\* appended returns it unchanged.
C13_SanitizedName ==
  /\ sn.phase \in {"named", "renamed"}
       => sn.name = ExpectedName(sn.filename) /\ WellFormedName(sn.name)
  /\ sn.phase = "renamed" => sn.again = sn.name

\* a filename with upper case and a run of other characters has been
\* sanitized twice
C13_Witness ==
  /\ sn.phase = "renamed"
  /\ sn.filename = <<"B", "-", " ", "a">>
  /\ sn.again = <<"b", "_", "a">>

\* descriptor d describes a table of the store: the table exists and has
\* exactly the columns d lists
AgreesWithStore(d) ==
  /\ DescriptorName(d) \in DOMAIN store
  /\ d = Descriptor(DescriptorName(d), store[DescriptorName(d)])

\* C14: once two upload batches (each with pairwise distinct table names)
\* have both completed, however they interleaved, every descriptor of the
\* registry agrees with the table of that name in the store.
C14_RegistryAgreesWithStore ==
  (/\ \A u \in Uploads : Succeeded(u) /\ DistinctNames(files[u]))
    => \A i \in 1..Len(schemas_global) : AgreesWithStore(schemas_global[i])

\* upload u is inside its replace step (lines 96-97)
Replacing(u) == upc[u] \in {"clear", "extend"}

\* one step, as the replace steps see it: the step that completes the
\* replace of u leaves the registry equal to the whole descriptor list of u;
\* no step of another upload falls inside a replace; a step outside every
\* replace leaves the registry as it is
LastReplaceWins ==
  /\ \A u \in Uploads :
        upc[u] = "extend" /\ upc'[u] = "release" => schemas_global' = new_schemas[u]
  /\ \A u, v \in Uploads : Replacing(u) /\ v # u => upc'[v] = upc[v]
  /\ (\A u \in Uploads : ~Replacing(u)) => schemas_global' = schemas_global

\* C15: the registry is at every moment the whole descriptor list of the
\* batch whose replace completed last, with no descriptor of another batch:
\* each replace runs uninterrupted and ends with the registry equal to its
\* own list, and nothing else writes the registry; when two batches have
\* both succeeded the registry is the list of one of them.
C15_LastReplaceWins ==
  /\ [][LastReplaceWins]_vars
  /\ []((\A u \in Uploads : Succeeded(u)) => \E u \in Uploads : schemas_global = new_schemas[u])

\* both batches have succeeded and the registry is the list of the batch
\* that arrived first: it ran beside the other one and replaced last
C15_Witness ==
  /\ Succeeded(UploadOrder[1]) /\ Succeeded(UploadOrder[2])
  /\ new_schemas[UploadOrder[1]] # <<>> /\ new_schemas[UploadOrder[2]] # <<>>
  /\ new_schemas[UploadOrder[1]] # new_schemas[UploadOrder[2]]
  /\ uresp[UploadOrder[2]].schemas = new_schemas[UploadOrder[2]]
  /\ schemas_global = new_schemas[UploadOrder[1]]

\* C16: schema_lock is held only inside the replace of an upload (lines
\* 96-97) and the snapshot copy of generate_sql (line 140): never while a
\* request waits for a file or reads, parses or loads it, never during the
\* LLM call or execute_sql, and never while every request is suspended.
C16_LockOnlyAroundRegistry ==
  /\ \A u \in Uploads : schema_lock = u => upc[u] \in {"clear", "extend", "release"}
  /\ \A g \in Gens : schema_lock = g => gpc[g] = "snapshot"
  /\ (\E g \in Gens : gpc[g] \in {"llm", "execute"}) => schema_lock = NoOne
  /\ running = NoOne => schema_lock = NoOne

\* the LLM call of a request that took a snapshot of an uploaded batch is
\* in progress while an upload waits for a file
C16_Witness ==
  \E g \in Gens : \E u \in Uploads :
    /\ gpc[g] = "llm"
    /\ available_schemas[g] # <<>>
    /\ upc[u] = "read"
    /\ schema_lock = NoOne

\* C17: under fair scheduling a request that has reached its with
\* schema_lock block gets the lock and leaves the block, and a lock that is
\* held is released: no request waits for the lock forever.
C17_LockIsAcquiredAndReleased ==
  /\ \A u \in Uploads : (upc[u] = "lock") ~> (upc[u] \in {"return", "done"})
  /\ \A g \in Gens : (gpc[g] = "lock") ~> (gpc[g] \notin {"idle", "lock", "snapshot"})
  /\ (schema_lock # NoOne) ~> (schema_lock = NoOne)

\* an upload holds the lock after a generate_sql request has taken and
\* released it, while another upload waits for a file
C17_Witness ==
  \E g \in Gens : \E u, v \in Uploads :
    /\ schema_lock = u
    /\ gpc[g] = "done" /\ OPENAI_API_KEY
    /\ upc[v] = "read"

\* every file of the batch of u that is not skipped was parsed and loaded:
\* the loop is over, no kept file has content that is not a table, and the
\* list of u has one descriptor per kept file
WholeBatchLoaded(u) ==
  /\ idx[u] > Len(files[u])
  /\ \A i \in 1..Len(files[u]) :
        Kept(files[u][i]) => FileCat[files[u][i]].content.kind = "table"
  /\ Len(new_schemas[u]) = Cardinality({i \in 1..Len(files[u]) : Kept(files[u][i])})

\* upload u has failed
Failed(u) == upc[u] = "done" /\ uresp[u].status # 200

\* one step, as the registry sees it: a step that changes the registry is a
\* clear or an extend of an upload whose whole batch was loaded, and the
\* step in which an upload fails leaves the registry as it is
OnlyWholeBatchesWrite ==
  /\ schemas_global' # schemas_global
       => \E u \in Uploads :
            /\ upc[u] \in {"clear", "extend"}
            /\ upc'[u] # upc[u]
            /\ WholeBatchLoaded(u)
  /\ \A u \in Uploads :
        upc[u] # "done" /\ upc'[u] = "done" /\ uresp'[u].status # 200
          => schemas_global' = schemas_global

\* C18: an upload that fails (empty file list, or a parse or load error on
\* a file) leaves the registry as it was: the registry is modified only by
\* a batch in which every non-skipped file was parsed and loaded, a failure
\* is an empty list (400) or a file that does not parse (500), and the
\* tables of the files processed before the failing one remain in the store.
C18_FailedUploadKeepsRegistry ==
  /\ [][OnlyWholeBatchesWrite]_vars
  /\ [](\A u \in Uploads :
          Failed(u) =>
            /\ schema_lock # u
            /\ IF files[u] = <<>>
               THEN uresp[u].status = 400 /\ new_schemas[u] = <<>>
               ELSE /\ uresp[u].status = 500
                    /\ idx[u] \in 1..Len(files[u])
                    /\ Kept(files[u][idx[u]])
                    /\ FileCat[files[u][idx[u]]].content.kind = "garbage"
                    /\ \A i \in 1..(idx[u] - 1) :
                          Kept(files[u][i]) => NameOf[files[u][i]] \in DOMAIN store)

\* an upload failed on its second file after loading the table of its
\* first, and the registry holds the list of another batch, without the
\* descriptor of that table
C18_Witness ==
  \E u, v \in Uploads :
    /\ u # v
    /\ Failed(u) /\ uresp[u].status = 500
    /\ new_schemas[u] # <<>>
    /\ NameOf[files[u][1]] \in DOMAIN store
    /\ Succeeded(v)
    /\ schemas_global = new_schemas[v]
    /\ schemas_global # <<>>
    /\ \A i \in 1..Len(schemas_global) : schemas_global[i] # new_schemas[u][1]

====
